---- MODULE Spec2Model ----
(***************************************************************************)
(* Progress tracking and certificate eligibility of the e-learning         *)
(* backend: one learner, one course.  The stored documents are the         *)
(* variables; every route handler and model method is an operator from     *)
(* the stored documents to the stored documents, split at its awaits so    *)
(* that the same steps run either back to back (one request at a time) or  *)
(* interleaved (two requests in flight).                                   *)
(***************************************************************************)
EXTENDS Integers, Sequences, FiniteSets, TLC

VARIABLES
    course,          \* the Course document
    enrollment,      \* the Enrollment document of (user, course)
    progress,        \* the Progress document of (user, course)
    certificates,    \* the Certificate collection, in insertion order
    attempts,        \* the QuizAttempt collection, in insertion order
    now,             \* the clock read by new Date() / Date.now()
    idHookFirst,     \* does the certificateId pre('save') hook run before validation
    req              \* the requests in flight, one per slot

vars == <<course, enrollment, progress, certificates, attempts, now, idHookFirst, req>>

(***************************************************************************)
(* Bounds of the exploration.                                              *)
(***************************************************************************)
MaxNow == 1          \* the clock runs over 0..MaxNow
MaxTimeSpent == 1    \* cap of the time-spent accumulators
MaxEdits == 1        \* structure edits the authoring routes may still make
MaxAttempts == 1     \* quiz attempts kept in the collection
MaxUnenrolls == 1    \* unenrollments of the learner
MaxQuizCount == 2    \* quiz scores behind a quiz average

\* JavaScript undefined, for the numeric fields (all of them are >= 0 when set).
Undefined == -1

Slots == {1, 2}

(***************************************************************************)
(* Arithmetic helpers.                                                     *)
(***************************************************************************)
RECURSIVE SumFn(_, _)
SumFn(f, S) ==
    IF S = {} THEN 0
    ELSE LET x == CHOOSE y \in S : TRUE IN f[x] + SumFn(f, S \ {x})

\* Math.round((n / d) * 100) for n >= 0, d > 0: round half up.
RoundDown(n, d) == (100 * n) \div d
RoundPercent(n, d) == (200 * n + d) \div (2 * d)

(***************************************************************************)
(* Course documents.                                                       *)
(***************************************************************************)
DefaultQuiz == [isGraded |-> FALSE, passingScore |-> 70, questions |-> <<>>]

Lecture(id, order, type, duration, videoDuration, quiz) ==
    [id |-> id, order |-> order, type |-> type, duration |-> duration,
     video |-> [duration |-> videoDuration], quiz |-> quiz]

Section(id, order, lectures) == [id |-> id, order |-> order, lectures |-> lectures]

SingleQuestion(correct) == [type |-> "single", correctAnswers |-> correct]
MultipleQuestion(correct) == [type |-> "multiple", correctAnswers |-> correct]

\* The graded quiz of the three-lecture course: five single-choice questions.
GradedQuiz ==
    [isGraded |-> TRUE, passingScore |-> 70,
     questions |-> [i \in 1..5 |-> SingleQuestion(<<0>>)]]

\* Two video lectures weighing 100 s and 300 s: the first has its uploaded
\* video's duration, the second only the authored duration.
DurationSections ==
    << Section(1, 1, << Lecture(11, 1, "video", 2, 100, DefaultQuiz),
                        Lecture(12, 2, "video", 300, 0, DefaultQuiz) >>) >>

\* A video of 300 s followed by a note without a duration.
MixedSections ==
    << Section(1, 1, << Lecture(11, 1, "video", 300, 0, DefaultQuiz),
                        Lecture(12, 2, "note", 0, 0, DefaultQuiz) >>) >>

\* Four lectures whose durations are all unset.
ZeroSections ==
    << Section(1, 1, << Lecture(11, 1, "note", 0, 0, DefaultQuiz),
                        Lecture(12, 2, "note", 0, 0, DefaultQuiz) >>),
       Section(2, 2, << Lecture(13, 1, "video", 0, 0, DefaultQuiz),
                        Lecture(14, 2, "note", 0, 0, DefaultQuiz) >>) >>

\* One section: a video of 60 s and a graded quiz of 180 s.
SmallSections ==
    << Section(1, 1, << Lecture(11, 1, "video", 1, 60, DefaultQuiz),
                        Lecture(12, 2, "quiz", 180, 0, GradedQuiz) >>) >>

\* Two sections, three lectures of 60/60/180 s, the last one a graded quiz.
QuizSections ==
    << Section(1, 1, << Lecture(11, 1, "video", 1, 60, DefaultQuiz),
                        Lecture(12, 2, "note", 60, 0, DefaultQuiz) >>),
       Section(2, 2, << Lecture(13, 1, "quiz", 180, 0, GradedQuiz) >>) >>

CountLectures(sections) ==
    SumFn([i \in DOMAIN sections |-> Len(sections[i].lectures)], DOMAIN sections)

\* courseSchema.pre('save'): totalLectures follows the sections.
CourseSaved(c) == [c EXCEPT !.totalLectures = CountLectures(c.sections)]

NewCourse(sections, enabled) ==
    CourseSaved(
        [sections |-> sections,
         certificate |-> [enabled |-> enabled, organizationName |-> "org1",
                          signedBy |-> "signer1", template |-> "modern",
                          completionRequirement |-> 100, passingScore |-> 70],
         isPublished |-> TRUE,
         enrolledStudents |-> 0,
         totalLectures |-> 0,
         edits |-> 0])

\* A path the schema does not declare reads as undefined.
CourseGet(c, path) == IF path \in DOMAIN c THEN c[path] ELSE Undefined

SectionIndices(c) == 0 .. Len(c.sections) - 1
LectureIndices(c, s) == 0 .. Len(c.sections[s + 1].lectures) - 1
LecturePositions(c) ==
    UNION {{<<s, l>> : l \in LectureIndices(c, s)} : s \in SectionIndices(c)}
LectureAt(c, pos) == c.sections[pos[1] + 1].lectures[pos[2] + 1]

(***************************************************************************)
(* Enrollment documents.                                                   *)
(***************************************************************************)
NoLesson == [sectionIndex |-> Undefined, lessonIndex |-> Undefined]

NoEnrollment ==
    [exists |-> FALSE, isActive |-> FALSE, enrolledAt |-> Undefined,
     completedAt |-> Undefined,
     progress |-> [completedLessons |-> <<>>, overallProgress |-> 0,
                   lastAccessedLesson |-> NoLesson, totalTimeSpent |-> 0]]

NewEnrollment(t) ==
    [NoEnrollment EXCEPT !.exists = TRUE, !.isActive = TRUE, !.enrolledAt = t]

Lesson(s, l) == [sectionIndex |-> s, lessonIndex |-> l]

\* completedLessons.some(c => c.sectionIndex === s && c.lessonIndex === l)
HasLesson(completedLessons, s, l) ==
    \E i \in DOMAIN completedLessons : completedLessons[i] = Lesson(s, l)

\* completedLessons.filter(c => !(c.sectionIndex === s && c.lessonIndex === l))
WithoutLesson(completedLessons, s, l) ==
    SelectSeq(completedLessons, LAMBDA c : c # Lesson(s, l))

\* lecture.type === 'video' && lecture.video?.duration ? lecture.video.duration
\*                                                     : lecture.duration || 0
LectureDuration(lecture) ==
    IF lecture.type = "video" /\ lecture.video.duration # 0
    THEN lecture.video.duration
    ELSE lecture.duration

\* enrollmentSchema.methods.calculateProgress: the percentage it assigns.
CalculateProgressByCount(c, completedLessons) ==
    IF c.totalLectures > 0
    THEN RoundPercent(Len(completedLessons), c.totalLectures)
    ELSE 0
CalculateProgress(c, completedLessons) ==
    LET P == LecturePositions(c)
        dur == [p \in P |-> LectureDuration(LectureAt(c, p))]
        totalDuration == SumFn(dur, P)
        completedDuration ==
            SumFn(dur, {p \in P : HasLesson(completedLessons, p[1], p[2])})
        totalLessons == CourseGet(c, "totalLessons")
    IN  IF totalDuration > 0
        THEN RoundPercent(completedDuration, totalDuration)
        ELSE IF totalLessons > 0
             THEN RoundPercent(Len(completedLessons), totalLessons)
             ELSE 0

\* calculateProgress applied to a loaded document.
Recalculated(c, doc, t) ==
    LET p == CalculateProgress(c, doc.progress.completedLessons)
    IN  [doc EXCEPT !.progress.overallProgress = p,
                    !.completedAt = IF p = 100 /\ @ = Undefined THEN t ELSE @]

(***************************************************************************)
(* Certificate documents.                                                  *)
(***************************************************************************)
DayTicks == 2    \* clock ticks per day (1000 * 60 * 60 * 24 ms)

\* Math.ceil(ms / (1000 * 60 * 60 * 24)), also for a negative difference.
CeilDays(ticks) == -((-ticks) \div DayTicks)

RandomSuffixes == {"R1", "R2"}

\* `CERT-${timestamp}-${random}`
CertificateId(t, random) == [timestamp |-> t, random |-> random]
NoCertificateId == [timestamp |-> Undefined, random |-> "none"]

\* certificateData of a certificate built without it: only the template default.
NoCertificateData ==
    [organizationName |-> "undefined", signedBy |-> "undefined", template |-> "modern"]

\* The stored documents as one value, for the handlers.
DB ==
    [course |-> course, enrollment |-> enrollment, progress |-> progress,
     certificates |-> certificates, attempts |-> attempts, now |-> now,
     idHookFirst |-> idHookFirst]

\* Certificate.findOne({ user, course }) is not null.
HasCertificateNever(db) == FALSE
HasCertificate(db) == db.certificates # <<>>

\* certificate.save(): validation (certificateId is required), the pre('save')
\* hook that fills a missing certificateId, the unique index on certificateId.
\* No index covers (user, course).
CertificateSave(db, cert, random) ==
    LET hooked == IF cert.certificateId = NoCertificateId
                  THEN [cert EXCEPT !.certificateId = CertificateId(db.now, random)]
                  ELSE cert
        valid == cert.certificateId # NoCertificateId \/ db.idHookFirst
        fresh == \A i \in DOMAIN db.certificates :
                    db.certificates[i].certificateId # hooked.certificateId
    IN  IF valid /\ fresh
        THEN [ok |-> TRUE, db |-> [db EXCEPT !.certificates = Append(@, hooked)]]
        ELSE [ok |-> FALSE, db |-> db]

(***************************************************************************)
(* enrollment.save(): the modified paths of the loaded document are        *)
(* written; an array push is sent as a push of the new element, every      *)
(* other modified path as a set of its value.                              *)
(***************************************************************************)
EnrollmentValid(doc) ==
    doc.progress.overallProgress >= 0 /\ doc.progress.overallProgress <= 100

EnrollmentSave(stored, orig, doc, pushed) ==
    [stored EXCEPT
        !.isActive = IF doc.isActive # orig.isActive THEN doc.isActive ELSE @,
        !.enrolledAt = IF doc.enrolledAt # orig.enrolledAt THEN doc.enrolledAt ELSE @,
        !.completedAt = IF doc.completedAt # orig.completedAt THEN doc.completedAt ELSE @,
        !.progress.completedLessons =
            IF pushed THEN Append(@, doc.progress.completedLessons[Len(doc.progress.completedLessons)])
            ELSE IF doc.progress.completedLessons # orig.progress.completedLessons
                 THEN doc.progress.completedLessons
                 ELSE @,
        !.progress.overallProgress =
            IF doc.progress.overallProgress # orig.progress.overallProgress
            THEN doc.progress.overallProgress ELSE @,
        !.progress.lastAccessedLesson =
            IF doc.progress.lastAccessedLesson # orig.progress.lastAccessedLesson
            THEN doc.progress.lastAccessedLesson ELSE @,
        !.progress.totalTimeSpent =
            IF doc.progress.totalTimeSpent # orig.progress.totalTimeSpent
            THEN doc.progress.totalTimeSpent ELSE @]

(***************************************************************************)
(* Requests.  A request in flight keeps the handler's locals; pc names the *)
(* await it is suspended at.                                               *)
(***************************************************************************)
Idle == [pc |-> "idle"]

Body(sectionIndex, lessonIndex, sectionId, lectureId, timeSpent, random) ==
    [sectionIndex |-> sectionIndex, lessonIndex |-> lessonIndex,
     sectionId |-> sectionId, lectureId |-> lectureId,
     timeSpent |-> timeSpent, random |-> random]

Start(op, body) ==
    [op |-> op, pc |-> "begin", body |-> body, status |-> 0,
     sectionIndex |-> Undefined, lessonIndex |-> Undefined,
     orig |-> NoEnrollment, doc |-> NoEnrollment, pushed |-> FALSE]

Finish(loc, status) == [loc EXCEPT !.pc = "done", !.status = status]

\* The index of the lecture with this id in a section, or undefined.
RECURSIVE ScanLectures(_, _, _)
ScanLectures(lectures, lectureId, lIdx) ==
    IF lIdx >= Len(lectures) THEN Undefined
    ELSE IF lectures[lIdx + 1].id = lectureId THEN lIdx
    ELSE ScanLectures(lectures, lectureId, lIdx + 1)

RECURSIVE ScanSections(_, _, _, _)
ScanSections(sections, body, sIdx, found) ==
    IF sIdx >= Len(sections) THEN found
    ELSE LET section == sections[sIdx + 1]
             bySection == IF body.sectionId # Undefined /\ section.id = body.sectionId
                          THEN [found EXCEPT !.sectionIndex = sIdx]
                          ELSE found
             lIdx == IF body.lectureId # Undefined
                     THEN ScanLectures(section.lectures, body.lectureId, 0)
                     ELSE Undefined
             byLecture == IF lIdx # Undefined THEN Lesson(sIdx, lIdx) ELSE bySection
         IN  ScanSections(sections, body, sIdx + 1, byLecture)

\* "Determine sectionIndex and lessonIndex" of lesson-complete / lesson-uncomplete.
ResolveIndices(c, body) ==
    IF body.sectionId # Undefined \/ body.lectureId # Undefined
    THEN ScanSections(c.sections, body, 0, Lesson(body.sectionIndex, body.lessonIndex))
    ELSE Lesson(body.sectionIndex, body.lessonIndex)

\* Enrollment.findOne({ user, course, isActive: true })
ActiveEnrollment(db) == db.enrollment.exists /\ db.enrollment.isActive

(***************************************************************************)
(* POST /lesson-complete                                                   *)
(***************************************************************************)
\* The certificate the handler builds once the enrollment is complete.
CompletionCertificate(db, doc) ==
    [certificateId |-> NoCertificateId,
     completedAt |-> doc.completedAt,
     issuedAt |-> db.now,
     grade |-> "Pass",
     certificateData |-> NoCertificateData,
     metadata |-> [completionTime |-> CeilDays(doc.completedAt - doc.enrolledAt),
                   finalScore |-> 100,
                   completionPercentage |-> Undefined,
                   quizAverageScore |-> Undefined]]

\* Lines 69-91: the completion record, the last accessed lesson, the time spent.
MarkCompletedAlways(doc, s, l, timeSpent) ==
    [doc EXCEPT
        !.progress.completedLessons = Append(@, Lesson(s, l)),
        !.progress.lastAccessedLesson = Lesson(s, l),
        !.progress.totalTimeSpent = @ + timeSpent]
MarkCompleted(doc, s, l, timeSpent) ==
    [doc EXCEPT
        !.progress.completedLessons =
            IF HasLesson(@, s, l) THEN @ ELSE Append(@, Lesson(s, l)),
        !.progress.lastAccessedLesson = Lesson(s, l),
        !.progress.totalTimeSpent = @ + timeSpent]

LessonCompleteStep(db, loc) ==
    CASE loc.pc = "begin" ->
            IF ~ActiveEnrollment(db) THEN [db |-> db, loc |-> Finish(loc, 404)]
            ELSE LET at == ResolveIndices(db.course, loc.body)
                     s == at.sectionIndex
                     l == at.lessonIndex
                 IN  IF s = Undefined \/ l = Undefined
                     THEN [db |-> db, loc |-> Finish(loc, 400)]
                     ELSE [db |-> db,
                           loc |-> [loc EXCEPT
                              !.pc = "calculateProgress",
                              !.sectionIndex = s, !.lessonIndex = l,
                              !.orig = db.enrollment,
                              !.pushed = ~HasLesson(db.enrollment.progress.completedLessons, s, l),
                              !.doc = MarkCompleted(db.enrollment, s, l, loc.body.timeSpent)]]
      [] loc.pc = "calculateProgress" ->
            [db |-> db,
             loc |-> [loc EXCEPT !.pc = "save",
                                 !.doc = Recalculated(db.course, loc.doc, db.now)]]
      [] loc.pc = "save" ->
            IF ~EnrollmentValid(loc.doc) THEN [db |-> db, loc |-> Finish(loc, 500)]
            ELSE LET saved == [db EXCEPT !.enrollment =
                                  EnrollmentSave(@, loc.orig, loc.doc, loc.pushed)]
                 IN  IF loc.doc.progress.overallProgress = 100
                        /\ loc.doc.completedAt # Undefined
                     THEN [db |-> saved, loc |-> [loc EXCEPT !.pc = "findCertificate"]]
                     ELSE [db |-> saved, loc |-> Finish(loc, 200)]
      [] loc.pc = "findCertificate" ->
            IF HasCertificate(db) THEN [db |-> db, loc |-> Finish(loc, 200)]
            ELSE [db |-> db, loc |-> [loc EXCEPT !.pc = "saveCertificate"]]
      [] loc.pc = "saveCertificate" ->
            LET r == CertificateSave(db, CompletionCertificate(db, loc.doc),
                                     loc.body.random)
            IN  [db |-> r.db, loc |-> Finish(loc, IF r.ok THEN 200 ELSE 500)]

(***************************************************************************)
(* POST /lesson-uncomplete                                                 *)
(***************************************************************************)
\* Lines 196-204: drop the completion record, subtract the time spent.
UnmarkedSection(doc, s, l, timeSpent) ==
    [doc EXCEPT
        !.progress.completedLessons = SelectSeq(@, LAMBDA c : c.sectionIndex # s),
        !.progress.totalTimeSpent =
            IF timeSpent # 0 /\ @ >= timeSpent THEN @ - timeSpent ELSE @]
Unmarked(doc, s, l, timeSpent) ==
    [doc EXCEPT
        !.progress.completedLessons = WithoutLesson(@, s, l),
        !.progress.totalTimeSpent =
            IF timeSpent # 0 /\ @ >= timeSpent THEN @ - timeSpent ELSE @]

LessonUncompleteStep(db, loc) ==
    CASE loc.pc = "begin" ->
            IF ~ActiveEnrollment(db) THEN [db |-> db, loc |-> Finish(loc, 404)]
            ELSE LET at == ResolveIndices(db.course, loc.body)
                     s == at.sectionIndex
                     l == at.lessonIndex
                 IN  IF s = Undefined \/ l = Undefined
                     THEN [db |-> db, loc |-> Finish(loc, 400)]
                     ELSE [db |-> db,
                           loc |-> [loc EXCEPT
                              !.pc = "calculateProgress",
                              !.sectionIndex = s, !.lessonIndex = l,
                              !.orig = db.enrollment,
                              !.doc = Unmarked(db.enrollment, s, l, loc.body.timeSpent)]]
      [] loc.pc = "calculateProgress" ->
            [db |-> db,
             loc |-> [loc EXCEPT !.pc = "save",
                                 !.doc = Recalculated(db.course, loc.doc, db.now)]]
      [] loc.pc = "save" ->
            IF ~EnrollmentValid(loc.doc) THEN [db |-> db, loc |-> Finish(loc, 500)]
            ELSE LET saved == [db EXCEPT !.enrollment =
                                  EnrollmentSave(@, loc.orig, loc.doc, FALSE)]
                 IN  IF loc.doc.completedAt # Undefined
                     THEN [db |-> saved,
                           loc |-> [loc EXCEPT !.pc = "saveIncomplete",
                                               !.orig = loc.doc,
                                               !.doc.completedAt = Undefined]]
                     ELSE [db |-> saved, loc |-> Finish(loc, 200)]
      [] loc.pc = "saveIncomplete" ->
            [db |-> [db EXCEPT !.enrollment =
                        EnrollmentSave(@, loc.orig, loc.doc, FALSE)],
             loc |-> Finish(loc, 200)]

(***************************************************************************)
(* POST /reset/:courseId                                                   *)
(***************************************************************************)
ResetProgress(doc) ==
    [doc EXCEPT !.progress.completedLessons = <<>>,
                !.progress.overallProgress = 0,
                !.progress.lastAccessedLesson = NoLesson,
                !.progress.totalTimeSpent = 0,
                !.completedAt = Undefined]

ResetStep(db, loc) ==
    CASE loc.pc = "begin" ->
            IF ~ActiveEnrollment(db) THEN [db |-> db, loc |-> Finish(loc, 404)]
            ELSE [db |-> db,
                  loc |-> [loc EXCEPT !.pc = "save", !.orig = db.enrollment,
                                      !.doc = ResetProgress(db.enrollment)]]
      [] loc.pc = "save" ->
            [db |-> [db EXCEPT !.enrollment =
                        EnrollmentSave(@, loc.orig, loc.doc, FALSE)],
             loc |-> Finish(loc, 200)]

(***************************************************************************)
(* Progress documents (models/Progress.js).                                *)
(***************************************************************************)
NoProgress ==
    [exists |-> FALSE, completionPercentage |-> 0, completedAt |-> Undefined,
     completionTime |-> 0, quizScores |-> <<>>, completedLessons |-> <<>>,
     lastAccessedLesson |-> NoLesson, totalTimeSpent |-> 0]

NewProgress == [NoProgress EXCEPT !.exists = TRUE]

CompletedLesson(s, l, timeSpent) ==
    [sectionIndex |-> s, lectureIndex |-> l, timeSpent |-> timeSpent]

\* completedLessons.find(cl => cl.sectionIndex === s && cl.lectureIndex === l)
FindCompleted(completedLessons, s, l) ==
    {i \in DOMAIN completedLessons :
        completedLessons[i].sectionIndex = s /\ completedLessons[i].lectureIndex = l}

\* progressSchema.methods.calculateCompletionPercentage
CalculateCompletionPercentage(c, doc, t) ==
    LET totalLessons == CountLectures(c.sections)
        percentage == RoundPercent(Len(doc.completedLessons), totalLessons)
    IN  IF Len(c.sections) = 0 \/ totalLessons = 0 THEN doc
        ELSE [doc EXCEPT !.completionPercentage = percentage,
                         !.completedAt =
                             IF percentage = 100 /\ @ = Undefined THEN t ELSE @]

\* The document completeLesson hands to save().
CompleteLessonDoc(c, doc, s, l, timeSpent, t) ==
    LET found == FindCompleted(doc.completedLessons, s, l)
        i == CHOOSE j \in found : \A k \in found : j <= k
        marked ==
            [doc EXCEPT
                !.completedLessons =
                    IF found = {} THEN Append(@, CompletedLesson(s, l, timeSpent))
                    ELSE [@ EXCEPT ![i].timeSpent = @ + timeSpent],
                !.lastAccessedLesson = Lesson(s, l),
                !.totalTimeSpent = @ + timeSpent,
                !.completionTime = doc.totalTimeSpent + timeSpent]
    IN  CalculateCompletionPercentage(c, marked, t)

\* The schema's min/max validators, run by save().
ProgressValid(doc) ==
    doc.completionPercentage >= 0 /\ doc.completionPercentage <= 100

\* progressSchema.methods.completeLesson: the stored document afterwards.
CompleteLesson(c, doc, s, l, timeSpent, t) ==
    LET next == CompleteLessonDoc(c, doc, s, l, timeSpent, t)
    IN  IF ProgressValid(next) THEN next ELSE doc

QuizScore(s, l, quizId, score) ==
    [sectionIndex |-> s, lectureIndex |-> l, quizId |-> quizId, score |-> score]

\* progressSchema.methods.addQuizScore
AddQuizScore(doc, s, l, quizId, score) ==
    LET kept == SelectSeq(doc.quizScores,
                    LAMBDA qs : ~(qs.sectionIndex = s /\ qs.lectureIndex = l
                                  /\ qs.quizId = quizId))
        next == [doc EXCEPT !.quizScores = Append(kept, QuizScore(s, l, quizId, score))]
    IN  IF score >= 0 /\ score <= 100 THEN next ELSE doc

(***************************************************************************)
(* CertificateService                                                      *)
(***************************************************************************)
\* value || fallback, for numbers.
OrElse(value, fallback) == IF value = 0 \/ value = Undefined THEN fallback ELSE value

Ineligible(reason) ==
    [eligible |-> FALSE, reason |-> reason, certificate |-> FALSE,
     completionPercentage |-> Undefined, quizTotal |-> Undefined,
     quizCount |-> Undefined, completedAt |-> Undefined,
     completionTime |-> Undefined]

\* course.sections.some(section => section.lectures.some(l => l.type === 'quiz'))
HasQuizzes(c) == \E p \in LecturePositions(c) : LectureAt(c, p).type = "quiz"

QuizTotal(doc) ==
    SumFn([i \in DOMAIN doc.quizScores |-> doc.quizScores[i].score],
          DOMAIN doc.quizScores)

\* checkEligibility.  The quiz average is the exact quotient quizTotal / quizCount.
CheckEligibilityAnyCompletion(db) ==
    LET c == db.course
        p == db.progress
        scored == HasQuizzes(c) /\ Len(p.quizScores) > 0
        quizTotal == IF scored THEN QuizTotal(p) ELSE 100
        quizCount == IF scored THEN Len(p.quizScores) ELSE 1
        requiredScore == OrElse(c.certificate.passingScore, 70)
    IN  IF ~c.certificate.enabled THEN Ineligible("Certificate not enabled for this course")
        ELSE IF ~ActiveEnrollment(db) THEN Ineligible("User not enrolled in this course")
        ELSE IF HasCertificate(db)
             THEN [Ineligible("Certificate already issued") EXCEPT !.certificate = TRUE]
        ELSE IF ~p.exists THEN Ineligible("No progress found for this course")
        ELSE IF scored /\ quizTotal < requiredScore * quizCount
             THEN Ineligible("Minimum quiz score required")
        ELSE [eligible |-> TRUE, reason |-> "", certificate |-> FALSE,
              completionPercentage |-> OrElse(p.completionPercentage, 0),
              quizTotal |-> quizTotal, quizCount |-> quizCount,
              completedAt |-> IF p.completedAt = Undefined THEN db.now ELSE p.completedAt,
              completionTime |-> p.completionTime]
CheckEligibilityExistingFirst(db) ==
    LET c == db.course
        p == db.progress
        completionPercentage == OrElse(p.completionPercentage, 0)
        requiredCompletion == OrElse(c.certificate.completionRequirement, 100)
        scored == HasQuizzes(c) /\ Len(p.quizScores) > 0
        quizTotal == IF scored THEN QuizTotal(p) ELSE 100
        quizCount == IF scored THEN Len(p.quizScores) ELSE 1
        requiredScore == OrElse(c.certificate.passingScore, 70)
    IN  IF HasCertificate(db)
        THEN [Ineligible("Certificate already issued") EXCEPT !.certificate = TRUE]
        ELSE IF ~c.certificate.enabled THEN Ineligible("Certificate not enabled for this course")
        ELSE IF ~ActiveEnrollment(db) THEN Ineligible("User not enrolled in this course")
        ELSE IF ~p.exists THEN Ineligible("No progress found for this course")
        ELSE IF completionPercentage < requiredCompletion
             THEN Ineligible("Course completion required")
        ELSE IF scored /\ quizTotal < requiredScore * quizCount
             THEN Ineligible("Minimum quiz score required")
        ELSE [eligible |-> TRUE, reason |-> "", certificate |-> FALSE,
              completionPercentage |-> completionPercentage,
              quizTotal |-> quizTotal, quizCount |-> quizCount,
              completedAt |-> IF p.completedAt = Undefined THEN db.now ELSE p.completedAt,
              completionTime |-> p.completionTime]
CheckEligibilityNoExisting(db) ==
    LET c == db.course
        p == db.progress
        completionPercentage == OrElse(p.completionPercentage, 0)
        requiredCompletion == OrElse(c.certificate.completionRequirement, 100)
        scored == HasQuizzes(c) /\ Len(p.quizScores) > 0
        quizTotal == IF scored THEN QuizTotal(p) ELSE 100
        quizCount == IF scored THEN Len(p.quizScores) ELSE 1
        requiredScore == OrElse(c.certificate.passingScore, 70)
    IN  IF ~c.certificate.enabled THEN Ineligible("Certificate not enabled for this course")
        ELSE IF ~ActiveEnrollment(db) THEN Ineligible("User not enrolled in this course")
        ELSE IF ~p.exists THEN Ineligible("No progress found for this course")
        ELSE IF completionPercentage < requiredCompletion
             THEN Ineligible("Course completion required")
        ELSE IF scored /\ quizTotal < requiredScore * quizCount
             THEN Ineligible("Minimum quiz score required")
        ELSE [eligible |-> TRUE, reason |-> "", certificate |-> FALSE,
              completionPercentage |-> completionPercentage,
              quizTotal |-> quizTotal, quizCount |-> quizCount,
              completedAt |-> IF p.completedAt = Undefined THEN db.now ELSE p.completedAt,
              completionTime |-> p.completionTime]
CheckEligibility(db) ==
    LET c == db.course
        p == db.progress
        completionPercentage == OrElse(p.completionPercentage, 0)
        requiredCompletion == OrElse(c.certificate.completionRequirement, 100)
        scored == HasQuizzes(c) /\ Len(p.quizScores) > 0
        quizTotal == IF scored THEN QuizTotal(p) ELSE 100
        quizCount == IF scored THEN Len(p.quizScores) ELSE 1
        requiredScore == OrElse(c.certificate.passingScore, 70)
    IN  IF ~c.certificate.enabled THEN Ineligible("Certificate not enabled for this course")
        ELSE IF ~ActiveEnrollment(db) THEN Ineligible("User not enrolled in this course")
        ELSE IF HasCertificate(db)
             THEN [Ineligible("Certificate already issued") EXCEPT !.certificate = TRUE]
        ELSE IF ~p.exists THEN Ineligible("No progress found for this course")
        ELSE IF completionPercentage < requiredCompletion
             THEN Ineligible("Course completion required")
        ELSE IF scored /\ quizTotal < requiredScore * quizCount
             THEN Ineligible("Minimum quiz score required")
        ELSE [eligible |-> TRUE, reason |-> "", certificate |-> FALSE,
              completionPercentage |-> completionPercentage,
              quizTotal |-> quizTotal, quizCount |-> quizCount,
              completedAt |-> IF p.completedAt = Undefined THEN db.now ELSE p.completedAt,
              completionTime |-> p.completionTime]

CalculateGradeStrict(completionPercentage, quizTotal, quizCount) ==
    LET twice == completionPercentage * quizCount + quizTotal
    IN  IF twice > 190 * quizCount THEN "A+"
        ELSE IF twice > 180 * quizCount THEN "A"
        ELSE IF twice > 170 * quizCount THEN "B+"
        ELSE IF twice > 160 * quizCount THEN "B"
        ELSE IF twice > 150 * quizCount THEN "C+"
        ELSE IF twice > 140 * quizCount THEN "C"
        ELSE "Pass"
\* calculateGrade, on overallScore = (completionPercentage + total / count) / 2.
CalculateGrade(completionPercentage, quizTotal, quizCount) ==
    LET twice == completionPercentage * quizCount + quizTotal   \* 2 * count * overallScore
    IN  IF twice >= 190 * quizCount THEN "A+"
        ELSE IF twice >= 180 * quizCount THEN "A"
        ELSE IF twice >= 170 * quizCount THEN "B+"
        ELSE IF twice >= 160 * quizCount THEN "B"
        ELSE IF twice >= 150 * quizCount THEN "C+"
        ELSE IF twice >= 140 * quizCount THEN "C"
        ELSE "Pass"

\* The certificate generateCertificate builds from an eligibility result.
ServiceCertificate(db, e) ==
    [certificateId |-> NoCertificateId,
     completedAt |-> e.completedAt,
     issuedAt |-> db.now,
     grade |-> CalculateGrade(e.completionPercentage, e.quizTotal, e.quizCount),
     certificateData |-> [organizationName |-> db.course.certificate.organizationName,
                          signedBy |-> db.course.certificate.signedBy,
                          template |-> db.course.certificate.template],
     metadata |-> [completionTime |-> e.completionTime,
                   finalScore |-> [total |-> e.quizTotal, count |-> e.quizCount],
                   completionPercentage |-> e.completionPercentage,
                   quizAverageScore |-> [total |-> e.quizTotal, count |-> e.quizCount]]]

GenerateCertificateStep(db, loc) ==
    CASE loc.pc = "begin" ->
            LET e == CheckEligibility(db)
            IN  IF ~e.eligible THEN [db |-> db, loc |-> Finish(loc, 400)]
                ELSE [db |-> db,
                      loc |-> [loc EXCEPT !.pc = "saveCertificate",
                                          !.doc = ServiceCertificate(db, e)]]
      [] loc.pc = "saveCertificate" ->
            LET r == CertificateSave(db, [loc.doc EXCEPT !.issuedAt = db.now],
                                     loc.body.random)
            IN  IF r.ok THEN [db |-> r.db, loc |-> [loc EXCEPT !.pc = "updateEnrollment"]]
                ELSE [db |-> db, loc |-> Finish(loc, 500)]
      [] loc.pc = "updateEnrollment" ->
            [db |-> [db EXCEPT !.enrollment.completedAt =
                        IF db.enrollment.exists THEN db.now ELSE @],
             loc |-> Finish(loc, 200)]

(***************************************************************************)
(* routes/certificates.js                                                  *)
(***************************************************************************)
\* Enrollment.findOne({ user, course, completedAt: { $exists: true } })
CompletedEnrollment(db) == db.enrollment.exists /\ db.enrollment.completedAt # Undefined

RouteCertificate(db, certificateId, grade) ==
    [certificateId |-> certificateId,
     completedAt |-> db.enrollment.completedAt,
     issuedAt |-> db.now,
     grade |-> grade,
     certificateData |-> NoCertificateData,
     metadata |-> [completionTime |->
                       CeilDays(db.enrollment.completedAt - db.enrollment.enrolledAt),
                   finalScore |-> 100,
                   completionPercentage |-> Undefined,
                   quizAverageScore |-> Undefined]]

\* POST /generate/:courseId: the existing certificate is returned, else one is
\* created for a completed enrollment, with an explicit certificateId.
GenerateForCourse(db, random) ==
    IF HasCertificate(db) \/ ~CompletedEnrollment(db) THEN db
    ELSE CertificateSave(db,
            RouteCertificate(db, CertificateId(db.now, random), "Pass"),
            random).db

\* POST /generate (admin, instructor): grade is the request's grade || 'Pass'.
GenerateManual(db, grade, random) ==
    IF ~CompletedEnrollment(db) \/ HasCertificate(db) THEN db
    ELSE CertificateSave(db,
            RouteCertificate(db, NoCertificateId, grade),
            random).db

(***************************************************************************)
(* routes/enrollments.js                                                   *)
(***************************************************************************)
\* POST /enroll/:courseId
Enroll(db) ==
    IF ~db.course.isPublished THEN db
    ELSE IF db.enrollment.exists
    THEN IF db.enrollment.isActive THEN db
         ELSE [db EXCEPT !.enrollment.isActive = TRUE,
                         !.enrollment.enrolledAt = db.now]
    ELSE [db EXCEPT !.enrollment = NewEnrollment(db.now),
                    !.course.enrolledStudents = @ + 1]

\* DELETE /:enrollmentId
Unenroll(db) ==
    IF ~db.enrollment.exists THEN db
    ELSE [db EXCEPT !.enrollment.isActive = FALSE,
                    !.course.enrolledStudents = @ - 1]

(***************************************************************************)
(* routes/courses.js: the authoring routes that change the structure.      *)
(***************************************************************************)
\* Ids of the documents the authoring routes add (ObjectIds, never reused).
NewId(c) == 20 + c.edits

\* POST /:courseId/sections
AddSection(c) ==
    CourseSaved([c EXCEPT
        !.sections = Append(@, Section(NewId(c), Len(c.sections) + 1, <<>>)),
        !.edits = @ + 1])

\* POST /:courseId/sections/:sectionId/lectures
AddLecture(c, s, type, duration) ==
    LET lectures == c.sections[s + 1].lectures
        quiz == IF type = "quiz" THEN [DefaultQuiz EXCEPT !.questions = <<>>]
                ELSE DefaultQuiz
        newLecture == Lecture(NewId(c), Len(lectures) + 1, type, duration, 0, quiz)
    IN  CourseSaved([c EXCEPT
            !.sections[s + 1].lectures = Append(@, newLecture),
            !.edits = @ + 1])

\* s without its element at 0-based index i.
RemoveAt(s, i) == [j \in 1 .. Len(s) - 1 |-> IF j <= i THEN s[j] ELSE s[j + 1]]

\* DELETE /:courseId/sections/:sectionId/lectures/:lectureId
DeleteLecture(c, s, l) ==
    CourseSaved([c EXCEPT !.sections[s + 1].lectures = RemoveAt(@, l),
                          !.edits = @ + 1])

(***************************************************************************)
(* POST /attempt (quiz submission)                                         *)
(***************************************************************************)
Includes(seq, x) == \E i \in DOMAIN seq : seq[i] = x

\* Lines 48-58: is the selection the right answer to the question.
IsCorrect(question, selected) ==
    IF question.type = "single"
    THEN Len(selected) = 1 /\ Includes(question.correctAnswers, selected[1])
    ELSE /\ Len(question.correctAnswers) = Len(selected)
         /\ \A i \in DOMAIN question.correctAnswers :
                Includes(selected, question.correctAnswers[i])
         /\ \A i \in DOMAIN selected :
                Includes(question.correctAnswers, selected[i])

\* The quiz lectures with this id (section.lectures.id(lectureId), type quiz).
QuizLectures(c, lectureId) ==
    {p \in LecturePositions(c) :
        LectureAt(c, p).id = lectureId /\ LectureAt(c, p).type = "quiz"}

\* The whole handler.  An answer beyond the last question reads a property of
\* undefined; a quiz without questions scores NaN, which the schema rejects:
\* both end in the catch block, nothing stored.
SubmitAttempt(db, lectureId, answers) ==
    LET found == QuizLectures(db.course, lectureId)
        quiz == LectureAt(db.course, CHOOSE p \in found : TRUE).quiz
        questions == quiz.questions
        correctAnswers ==
            Cardinality({i \in DOMAIN answers : IsCorrect(questions[i], answers[i])})
        score == RoundPercent(correctAnswers, Len(questions))
        passed == IF quiz.isGraded
                  THEN (IF score >= quiz.passingScore THEN "true" ELSE "false")
                  ELSE "null"
        processedAnswers ==
            [i \in DOMAIN answers |->
                [questionIndex |-> i - 1, selectedAnswers |-> answers[i],
                 isCorrect |-> IsCorrect(questions[i], answers[i])]]
        attempt == [lecture |-> lectureId, answers |-> processedAnswers,
                    score |-> score,
                    totalQuestions |-> Len(questions),
                    correctAnswers |-> correctAnswers,
                    passed |-> passed, isGraded |-> quiz.isGraded]
    IN  IF found = {} THEN db
        ELSE IF Len(answers) > Len(questions) \/ Len(questions) = 0 THEN db
        ELSE [db EXCEPT !.attempts = Append(@, attempt)]

(***************************************************************************)
(* Running a handler.                                                      *)
(***************************************************************************)
Step(db, loc) ==
    CASE loc.op = "lessonComplete" -> LessonCompleteStep(db, loc)
      [] loc.op = "lessonUncomplete" -> LessonUncompleteStep(db, loc)
      [] loc.op = "reset" -> ResetStep(db, loc)
      [] loc.op = "generateCertificate" -> GenerateCertificateStep(db, loc)

\* The handler from its first await to its response, nothing interleaved.
RECURSIVE Run(_, _)
Run(db, loc) ==
    IF loc.pc = "done" THEN [db |-> db, loc |-> loc]
    ELSE LET r == Step(db, loc) IN Run(r.db, r.loc)

Handle(db, op, body) == Run(db, Start(op, body)).db

(***************************************************************************)
(* Inputs.                                                                 *)
(***************************************************************************)
\* The lessons the requests address: on the one-section course the last is
\* out of range, as is every lesson a deleted lecture leaves behind.
Targets == {<<0, 0>>, <<0, 1>>, <<1, 0>>}
TimeInputs == {0, 1}

IndexBodies(P, T) ==
    {Body(p[1], p[2], Undefined, Undefined, t, "R1") : p \in P, t \in T}

\* Addressed by ids: a lecture, a section and a lecture of another section, a
\* section alone, an unknown lecture, nothing at all.
IdBodies ==
    {Body(Undefined, Undefined, ids[1], ids[2], 0, "R1") :
        ids \in {<<Undefined, 12>>, <<2, 11>>, <<1, Undefined>>, <<Undefined, 99>>}}

Bodies == IndexBodies(Targets, TimeInputs) \cup IdBodies

NoBody == Body(Undefined, Undefined, Undefined, Undefined, 0, "R1")

Store(db) ==
    /\ course' = db.course
    /\ enrollment' = db.enrollment
    /\ progress' = db.progress
    /\ certificates' = db.certificates
    /\ attempts' = db.attempts
    /\ UNCHANGED <<now, idHookFirst, req>>

TimeFits(body) == enrollment.progress.totalTimeSpent + body.timeSpent <= MaxTimeSpent

(***************************************************************************)
(* Spec: the progress aggregator on the Enrollment document, the course    *)
(* being edited meanwhile; one request at a time.                          *)
(***************************************************************************)
Catalog == {DurationSections, MixedSections, ZeroSections}

\* Nobody is enrolled, nothing is issued.
Empty ==
    /\ enrollment = NoEnrollment
    /\ progress = NoProgress
    /\ certificates = <<>>
    /\ attempts = <<>>
    /\ now = 0
    /\ idHookFirst \in BOOLEAN

\* Nobody is enrolled, nothing is issued, no request is in flight.
Fresh ==
    /\ Empty
    /\ req = [p \in Slots |-> Idle]

Init ==
    /\ \E sections \in Catalog : course = NewCourse(sections, TRUE)
    /\ Fresh

DoEnroll == Store(Enroll(DB))

LessonCompleteOf(B) ==
    \E body \in B : TimeFits(body) /\ Store(Handle(DB, "lessonComplete", body))

LessonUncompleteOf(B) ==
    \E body \in B : Store(Handle(DB, "lessonUncomplete", body))

DoLessonComplete == LessonCompleteOf(Bodies)

DoLessonUncomplete == LessonUncompleteOf(Bodies)

DoReset == Store(Handle(DB, "reset", NoBody))

DoAddLecture ==
    /\ course.edits < MaxEdits
    /\ \E s \in SectionIndices(course) :
           Store([DB EXCEPT !.course = AddLecture(course, s, "video", 1)])

DoDeleteLecture ==
    /\ course.edits < MaxEdits
    /\ \E p \in LecturePositions(course) :
           Store([DB EXCEPT !.course = DeleteLecture(course, p[1], p[2])])

Next ==
    \/ DoEnroll
    \/ DoLessonComplete
    \/ DoLessonUncomplete
    \/ DoReset
    \/ DoAddLecture
    \/ DoDeleteLecture

Spec == Init /\ [][Next]_vars

(***************************************************************************)
(* Properties of the progress aggregator.                                  *)
(***************************************************************************)
\* The request reaches the recomputation: an active enrollment, both indices known.
Recomputes(body) ==
    /\ ActiveEnrollment(DB)
    /\ ResolveIndices(course, body).sectionIndex # Undefined
    /\ ResolveIndices(course, body).lessonIndex # Undefined

Target(body) == ResolveIndices(course, body)

AfterComplete(body) == Handle(DB, "lessonComplete", body)
AfterCompleteUncomplete(body) ==
    Handle(AfterComplete(body), "lessonUncomplete", body)

\* The integer nearest to 100 * n / d, halves up (d > 0).
NearestPercent(n, d) ==
    CHOOSE k \in 0 .. 100 * (n + 1) :
        2 * d * k <= 200 * n + d /\ 200 * n + d < 2 * d * (k + 1)

\* The lectures of the course a completion record addresses.
CompletedPositions(c, completedLessons) ==
    {p \in LecturePositions(c) :
        \E i \in DOMAIN completedLessons :
            /\ completedLessons[i].sectionIndex = p[1]
            /\ completedLessons[i].lessonIndex = p[2]}

DurationOf(c, P) == SumFn([p \in P |-> LectureDuration(LectureAt(c, p))], P)

UpToDate == enrollment.progress.overallProgress
                = CalculateProgress(course, enrollment.progress.completedLessons)

\* C4 as stated: complete(L) then uncomplete(L) restores overallProgress and
\* completedLessons of every reachable state, whether or not L was completed in it.
C4_InverseLawEveryState ==
    \A body \in Bodies :
        Recomputes(body) =>
            LET after == AfterCompleteUncomplete(body).enrollment.progress
            IN  /\ after.completedLessons = enrollment.progress.completedLessons
                /\ after.overallProgress = enrollment.progress.overallProgress

\* C4 amended: when L is not yet completed and the stored overallProgress is the
\* percentage of the stored completedLessons under the current course structure,
\* complete(L) then uncomplete(L) restores completedLessons and overallProgress.
C4_InverseLaw ==
    \A body \in Bodies :
        (/\ Recomputes(body)
         /\ UpToDate
         /\ ~HasLesson(enrollment.progress.completedLessons,
                       Target(body).sectionIndex, Target(body).lessonIndex)) =>
            LET after == AfterCompleteUncomplete(body).enrollment.progress
            IN  /\ after.completedLessons = enrollment.progress.completedLessons
                /\ after.overallProgress = enrollment.progress.overallProgress

\* C4 witness: some lesson is completed, another is not, and completing it moves
\* the percentage that uncompleting it then restores.
C4_Witness ==
    /\ UpToDate
    /\ enrollment.progress.completedLessons # <<>>
    /\ \E body \in Bodies :
          /\ Recomputes(body)
          /\ ~HasLesson(enrollment.progress.completedLessons,
                        Target(body).sectionIndex, Target(body).lessonIndex)
          /\ AfterComplete(body).enrollment.progress.overallProgress
                 > enrollment.progress.overallProgress

\* C6: with a positive total duration, the recomputation of a completion gives
\* round(100 * duration of the completed lectures / duration of all lectures);
\* with lectures of 100 s and 300 s the first alone gives 25, both give 100.
C6_DurationWeighted ==
    /\ \A body \in Bodies :
          (Recomputes(body) /\ DurationOf(course, LecturePositions(course)) > 0) =>
              LET after == AfterComplete(body).enrollment.progress
              IN  after.overallProgress =
                      NearestPercent(
                          DurationOf(course,
                              CompletedPositions(course, after.completedLessons)),
                          DurationOf(course, LecturePositions(course)))
    /\ (/\ course.sections = DurationSections
        /\ ActiveEnrollment(DB)
        /\ enrollment.progress.completedLessons = <<>>) =>
           LET first == Handle(DB, "lessonComplete",
                               Body(0, 0, Undefined, Undefined, 0, "R1"))
               both == Handle(first, "lessonComplete",
                              Body(0, 1, Undefined, Undefined, 0, "R1"))
           IN  /\ first.enrollment.progress.overallProgress = 25
               /\ both.enrollment.progress.overallProgress = 100

\* C6 witness: the 100 s / 300 s course with only its first lecture completed, at 25.
C6_Witness ==
    /\ course.sections = DurationSections
    /\ enrollment.progress.completedLessons = <<Lesson(0, 0)>>
    /\ enrollment.progress.overallProgress = 25

\* C7: when every lecture has duration 0, the recomputation of a completion gives
\* round(100 * completed lecture count / total lecture count).
C7_CountFallback ==
    \A body \in Bodies :
        (/\ Recomputes(body)
         /\ DurationOf(course, LecturePositions(course)) = 0
         /\ CountLectures(course.sections) > 0) =>
            LET after == AfterComplete(body).enrollment.progress
            IN  after.overallProgress =
                    NearestPercent(Len(after.completedLessons),
                                   CountLectures(course.sections))

(***************************************************************************)
(* SpecCert: certificates and the Progress document of a two-lecture       *)
(* course, one request at a time.                                          *)
(***************************************************************************)
\* The two lectures of the course, no time spent.
LectureBodies == IndexBodies({<<0, 0>>, <<0, 1>>}, {0})

ScoreInputs == {60, 80}
GradeInputs == {"A+", "Pass"}

\* A Progress document comes to exist for an enrolled learner.
CreateProgress(db) ==
    IF db.enrollment.exists /\ ~db.progress.exists
    THEN [db EXCEPT !.progress = NewProgress]
    ELSE db

InitCert ==
    /\ \E enabled \in BOOLEAN : course = NewCourse(SmallSections, enabled)
    /\ Fresh

\* Every unenrollment decrements the course's counter: the guard caps the count.
DoUnenroll ==
    /\ 1 - course.enrolledStudents < MaxUnenrolls
    /\ Store(Unenroll(DB))

CertLessonComplete == LessonCompleteOf(LectureBodies)

CertLessonUncomplete == LessonUncompleteOf(LectureBodies)

DoCreateProgress == Store(CreateProgress(DB))

DoCompleteLesson ==
    /\ progress.exists
    /\ \E p \in Targets :
          Store([DB EXCEPT !.progress =
                    CompleteLesson(course, progress, p[1], p[2], 0, now)])

DoAddQuizScore ==
    /\ progress.exists
    /\ \E score \in ScoreInputs :
          Store([DB EXCEPT !.progress = AddQuizScore(progress, 0, 1, 12, score)])

DoGenerateCertificate == Store(Handle(DB, "generateCertificate", NoBody))

DoGenerateForCourse == Store(GenerateForCourse(DB, NoBody.random))

DoGenerateManual ==
    \E grade \in GradeInputs : Store(GenerateManual(DB, grade, NoBody.random))

NextCert ==
    \/ DoEnroll
    \/ DoUnenroll
    \/ CertLessonComplete
    \/ CertLessonUncomplete
    \/ DoReset
    \/ DoCreateProgress
    \/ DoCompleteLesson
    \/ DoAddQuizScore
    \/ DoGenerateCertificate
    \/ DoGenerateForCourse
    \/ DoGenerateManual
    \/ DoDeleteLecture

SpecCert == InitCert /\ [][NextCert]_vars

(***************************************************************************)
(* Properties of completion and of the certificates.                       *)
(***************************************************************************)
\* Progress.completeLesson of lesson p with this time spent, on the stored document.
Completed(doc, p, t) == CompleteLesson(course, doc, p[1], p[2], t, now)

\* C3: complete is idempotent: in every state, the second of two lesson-complete
\* requests in a row for the same lesson leaves the number of completion records and
\* overallProgress as the first left them, and so does the second of two
\* Progress.completeLesson calls with the number of records and completionPercentage.
C3_Idempotent ==
    /\ \A body \in Bodies :
          Recomputes(body) =>
              LET once == AfterComplete(body)
                  twice == Handle(once, "lessonComplete", body)
              IN  /\ Len(twice.enrollment.progress.completedLessons)
                         = Len(once.enrollment.progress.completedLessons)
                  /\ twice.enrollment.progress.overallProgress
                         = once.enrollment.progress.overallProgress
    /\ progress.exists =>
          \A p \in Targets, t \in TimeInputs :
              LET once == Completed(progress, p, t)
                  twice == Completed(once, p, t)
              IN  /\ Len(twice.completedLessons) = Len(once.completedLessons)
                  /\ twice.completionPercentage = once.completionPercentage

\* C3 witness: one of two lessons is completed on both documents, a second request
\* for it with time spent is accepted and only adds to the time spent.
C3_Witness ==
    /\ ActiveEnrollment(DB)
    /\ enrollment.progress.completedLessons = <<Lesson(0, 0)>>
    /\ enrollment.progress.overallProgress = 25
    /\ LET again == AfterComplete(Body(0, 0, Undefined, Undefined, 1, "R1")).enrollment
       IN  /\ again.progress.completedLessons = enrollment.progress.completedLessons
           /\ again.progress.totalTimeSpent = enrollment.progress.totalTimeSpent + 1
    /\ progress.exists
    /\ Len(progress.completedLessons) = 1
    /\ progress.completionPercentage = 50
    /\ Completed(progress, <<0, 0>>, 1).totalTimeSpent = progress.totalTimeSpent + 1

InRange(percentage) == percentage \in 0 .. 100

\* C5: every stored and every computed completion percentage is an integer in
\* 0 .. 100: the stored overallProgress and completionPercentage, the value the next
\* lesson-complete computes, and the value the next Progress.completeLesson computes.
C5_PercentagesInRange ==
    /\ InRange(enrollment.progress.overallProgress)
    /\ InRange(progress.completionPercentage)
    /\ \A body \in Bodies :
          Recomputes(body) =>
              InRange(Recalculated(course,
                          MarkCompleted(enrollment, Target(body).sectionIndex,
                                        Target(body).lessonIndex, body.timeSpent),
                          now).progress.overallProgress)
    /\ progress.exists =>
          \A p \in Targets :
              InRange(CompleteLessonDoc(course, progress, p[1], p[2], 0, now)
                          .completionPercentage)

\* C8: every step that adds a certificate starts in a state in which
\* checkEligibility returns eligible.
C8_NoBypass ==
    [][Len(certificates') > Len(certificates) => CheckEligibility(DB).eligible]_vars

AlreadyIssued(e) ==
    /\ ~e.eligible
    /\ e.reason = "Certificate already issued"
    /\ e.certificate

\* C9 as stated: whoever holds a certificate of the course is reported ineligible
\* with reason 'Certificate already issued' and the existing certificate.
C9_HolderEveryState == HasCertificate(DB) => AlreadyIssued(CheckEligibility(DB))

\* C9 amended: whoever holds a certificate of a course whose certificate is enabled
\* and has an active enrollment in it is reported ineligible with reason
\* 'Certificate already issued' and the existing certificate, whatever the
\* progress, the completion percentage and the quiz scores are.
C9_Holder ==
    (/\ HasCertificate(DB)
     /\ course.certificate.enabled
     /\ ActiveEnrollment(DB)) => AlreadyIssued(CheckEligibility(DB))

\* C9 witness: a holder whose progress was reset, with no Progress document at all.
C9_Witness ==
    /\ HasCertificate(DB)
    /\ course.certificate.enabled
    /\ ActiveEnrollment(DB)
    /\ enrollment.progress.completedLessons = <<>>
    /\ enrollment.progress.overallProgress = 0
    /\ enrollment.completedAt = Undefined
    /\ ~progress.exists
    /\ AlreadyIssued(CheckEligibility(DB))

(***************************************************************************)
(* Requests in flight: a request begins, runs from one await to the next   *)
(* while the other slot's request does the same, and responds.             *)
(***************************************************************************)
StoreAt(db, slot, loc) ==
    /\ course' = db.course
    /\ enrollment' = db.enrollment
    /\ progress' = db.progress
    /\ certificates' = db.certificates
    /\ attempts' = db.attempts
    /\ req' = [req EXCEPT ![slot] = loc]
    /\ UNCHANGED <<now, idHookFirst>>

BeginRequest(slot, op, body) ==
    /\ req[slot].pc = "idle"
    /\ StoreAt(DB, slot, Start(op, body))

StepRequest ==
    \E slot \in Slots :
        /\ req[slot].pc \notin {"idle", "done"}
        /\ LET r == Step(DB, req[slot]) IN StoreAt(r.db, slot, r.loc)

Respond ==
    \E slot \in Slots :
        /\ req[slot].pc = "done"
        /\ StoreAt(DB, slot, Idle)

\* Both requests have responded or are about to, neither with 404 or 400.
BothThrough == \A slot \in Slots : req[slot].pc = "done" /\ req[slot].status \notin {400, 404}

(***************************************************************************)
(* SpecConc: two lesson-complete requests of one learner at a time.        *)
(***************************************************************************)
InitConc ==
    /\ course = NewCourse(DurationSections, TRUE)
    /\ Fresh

BeginLessonComplete ==
    \E slot \in Slots, body \in LectureBodies :
        BeginRequest(slot, "lessonComplete", body)

NextConc ==
    \/ DoEnroll
    \/ BeginLessonComplete
    \/ StepRequest
    \/ Respond

SpecConc == InitConc /\ [][NextConc]_vars

\* C1: once two lesson-complete requests for two different lectures have both
\* finished, the stored record has both lectures and the stored overallProgress is
\* the percentage of the stored completedLessons.
C1_Serialized ==
    (/\ BothThrough
     /\ Lesson(req[1].sectionIndex, req[1].lessonIndex)
            # Lesson(req[2].sectionIndex, req[2].lessonIndex)) =>
        /\ \A slot \in Slots :
              HasLesson(enrollment.progress.completedLessons,
                        req[slot].sectionIndex, req[slot].lessonIndex)
        /\ UpToDate

(***************************************************************************)
(* SpecIssue: two generateCertificate calls for one learner at a time.     *)
(***************************************************************************)
BeginGenerateCertificate ==
    \E slot \in Slots, random \in RandomSuffixes :
        BeginRequest(slot, "generateCertificate", [NoBody EXCEPT !.random = random])

NextIssue ==
    \/ DoEnroll
    \/ DoCreateProgress
    \/ DoCompleteLesson
    \/ BeginGenerateCertificate
    \/ StepRequest
    \/ Respond

SpecIssue == InitConc /\ [][NextIssue]_vars

\* C2: once two generateCertificate calls that both passed the eligibility check
\* have both finished, exactly one certificate of the learner and course is stored.
C2_ExactlyOne == BothThrough => Len(certificates) = 1

(***************************************************************************)
(* SpecE2E: the three-lecture course with a graded quiz, through the       *)
(* exposed operations, one request at a time.                              *)
(***************************************************************************)
\* Five answers, the first `right` of them correct.
Answers(right) == [i \in 1 .. 5 |-> IF i <= right THEN <<0>> ELSE <<1>>]

AnswerInputs == {Answers(3), Answers(4), Answers(5)}

AllLectureBodies == IndexBodies(Targets, {0})

InitE2E ==
    /\ course = NewCourse(QuizSections, TRUE)
    /\ Fresh

Tick ==
    /\ now < MaxNow
    /\ now' = now + 1
    /\ UNCHANGED <<course, enrollment, progress, certificates, attempts, idHookFirst, req>>

SubmitAttemptOf(L, A) ==
    /\ Len(attempts) < MaxAttempts
    /\ \E lectureId \in L, answers \in A : Store(SubmitAttempt(DB, lectureId, answers))

DoSubmitAttempt == SubmitAttemptOf({13}, AnswerInputs)

E2ELessonComplete == LessonCompleteOf(AllLectureBodies)

NextE2E ==
    \/ DoEnroll
    \/ Tick
    \/ DoSubmitAttempt
    \/ E2ELessonComplete
    \/ DoGenerateCertificate

SpecE2E == InitE2E /\ [][NextE2E]_vars

AllCompleted ==
    \A p \in LecturePositions(course) :
        HasLesson(enrollment.progress.completedLessons, p[1], p[2])

\* C10: once the learner is enrolled, has an attempt scoring 80 and has completed
\* all three lectures, overallProgress is 100 and completedAt is set; and as long as
\* no certificate is stored checkEligibility returns eligible with quiz average 80
\* and generateCertificate stores a certificate of grade 'A', which is the only
\* certificate ever stored.
C10_EndToEnd ==
    (/\ ActiveEnrollment(DB)
     /\ attempts # <<>>
     /\ \A i \in DOMAIN attempts : attempts[i].score = 80
     /\ AllCompleted) =>
        /\ enrollment.progress.overallProgress = 100
        /\ enrollment.completedAt # Undefined
        /\ IF certificates = <<>>
           THEN LET e == CheckEligibility(DB)
                    issued == Handle(DB, "generateCertificate", NoBody).certificates
                IN  /\ e.eligible
                    /\ e.quizTotal = 80 * e.quizCount
                    /\ Len(issued) = 1
                    /\ issued[1].grade = "A"
           ELSE Len(certificates) = 1 /\ certificates[1].grade = "A"

(***************************************************************************)
(* SpecGate: the eligibility thresholds on the three-lecture course with a *)
(* graded quiz, the completion requirement being 50 or 100.                *)
(***************************************************************************)
RequirementInputs == {50, 100}

InitGate ==
    /\ \E r \in RequirementInputs :
          course = [NewCourse(QuizSections, TRUE) EXCEPT
                       !.certificate.completionRequirement = r]
    /\ Fresh

GateAddQuizScore ==
    /\ progress.exists
    /\ \E score \in ScoreInputs :
          Store([DB EXCEPT !.progress = AddQuizScore(progress, 1, 0, 13, score)])

NextGate ==
    \/ DoEnroll
    \/ DoSubmitAttempt
    \/ DoCreateProgress
    \/ DoCompleteLesson
    \/ GateAddQuizScore
    \/ DoGenerateCertificate

SpecGate == InitGate /\ [][NextGate]_vars

\* course.sections.some(... lecture.type === 'quiz' && lecture.quiz.isGraded)
HasGradedQuiz(c) ==
    \E p \in LecturePositions(c) :
        LectureAt(c, p).type = "quiz" /\ LectureAt(c, p).quiz.isGraded

AttemptTotal == SumFn([i \in DOMAIN attempts |-> attempts[i].score], DOMAIN attempts)

\* C11: when the course has a graded quiz and the average score of the learner's
\* quiz attempts is below course.certificate.passingScore, checkEligibility does not
\* return eligible, however many lectures are completed; when the course has no
\* quiz lecture an eligible result carries quiz average 100.
C11_QuizGate ==
    /\ (/\ HasGradedQuiz(course)
        /\ attempts # <<>>
        /\ AttemptTotal < course.certificate.passingScore * Len(attempts)) =>
           ~CheckEligibility(DB).eligible
    /\ (~HasQuizzes(course) /\ CheckEligibility(DB).eligible) =>
           CheckEligibility(DB).quizTotal = 100 * CheckEligibility(DB).quizCount

Below == progress.completionPercentage < course.certificate.completionRequirement

Percentages == 0 .. 100

GradeCall(completionPercentage, quizTotal, quizCount) ==
    [op |-> "calculateGrade", pc |-> "begin",
     completionPercentage |-> completionPercentage,
     quizTotal |-> quizTotal, quizCount |-> quizCount, grade |-> "none"]

InitGrade ==
    /\ course = NewCourse(QuizSections, TRUE)
    /\ Empty
    /\ \E completionPercentage \in Percentages, quizCount \in 1 .. MaxQuizCount :
          \E quizTotal \in 0 .. 100 * quizCount :
              req = [p \in Slots |->
                        IF p = 1
                        THEN GradeCall(completionPercentage, quizTotal, quizCount)
                        ELSE Idle]

DoCalculateGrade ==
    /\ req[1].pc = "begin"
    /\ req' = [req EXCEPT ![1] =
                  [@ EXCEPT !.pc = "done",
                            !.grade = CalculateGrade(req[1].completionPercentage,
                                                     req[1].quizTotal,
                                                     req[1].quizCount)]]
    /\ UNCHANGED <<course, enrollment, progress, certificates, attempts, now, idHookFirst>>

NextGrade == DoCalculateGrade

SpecGrade == InitGrade /\ [][NextGrade]_vars

\* The thresholds of the grades, on overall = (completion + quiz average) / 2.
GradeTable ==
    << [min |-> 95, grade |-> "A+"], [min |-> 90, grade |-> "A"],
       [min |-> 85, grade |-> "B+"], [min |-> 80, grade |-> "B"],
       [min |-> 75, grade |-> "C+"], [min |-> 70, grade |-> "C"] >>

\* The letter of the highest threshold that (c + total / count) / 2 reaches.
ReferenceGrade(c, total, count) ==
    LET met == {i \in DOMAIN GradeTable :
                   c * count + total >= 2 * count * GradeTable[i].min}
    IN  IF met = {} THEN "Pass"
        ELSE GradeTable[CHOOSE i \in met :
                           \A j \in met : GradeTable[i].min >= GradeTable[j].min].grade

\* C13: for every completion percentage and quiz average in 0 .. 100,
\* calculateGrade returns the letter of overall = (completion + quiz average) / 2
\* under the thresholds 95 A+, 90 A, 85 B+, 80 B, 75 C+, 70 C, else Pass;
\* (100, 80) gives 'A' and (100, 60) gives 'B'.
C13_Grade ==
    req[1].pc = "done" =>
        /\ req[1].grade = ReferenceGrade(req[1].completionPercentage,
                                         req[1].quizTotal, req[1].quizCount)
        /\ (req[1].completionPercentage = 100
            /\ req[1].quizTotal = 80 * req[1].quizCount) => req[1].grade = "A"
        /\ (req[1].completionPercentage = 100
            /\ req[1].quizTotal = 60 * req[1].quizCount) => req[1].grade = "B"

\* C13 witness: calculateGrade(100, 80) has returned 'A'.
C13_Witness ==
    /\ req[1].pc = "done"
    /\ req[1].completionPercentage = 100
    /\ req[1].quizTotal = 80 /\ req[1].quizCount = 1
    /\ req[1].grade = "A"

(***************************************************************************)
(* Index validation and the clearing of completedAt, under Spec.           *)
(***************************************************************************)
\* A request that gives indices which address no lecture of the course.
OutOfRange(body) ==
    /\ body.sectionIndex # Undefined
    /\ body.lessonIndex # Undefined
    /\ body.sectionId = Undefined
    /\ body.lectureId = Undefined
    /\ <<body.sectionIndex, body.lessonIndex>> \notin LecturePositions(course)

\* C18: completing or uncompleting with indices outside the course's structure
\* leaves completedLessons, overallProgress, lastAccessedLesson, totalTimeSpent and
\* completedAt as they were.
C18_IndexValidation ==
    \A body \in Bodies :
        (ActiveEnrollment(DB) /\ OutOfRange(body)) =>
            \A op \in {"lessonComplete", "lessonUncomplete"} :
                LET after == Handle(DB, op, body).enrollment
                IN  /\ after.progress = enrollment.progress
                    /\ after.completedAt = enrollment.completedAt

\* C20: an uncomplete of a lecture of the course whose recomputed overallProgress
\* is still 100 does not clear a completedAt that was set.
C20_ClearsOnlyBelow100 ==
    \A body \in Bodies :
        (/\ Recomputes(body)
         /\ <<Target(body).sectionIndex, Target(body).lessonIndex>>
                \in LecturePositions(course)
         /\ enrollment.completedAt # Undefined) =>
            LET after == Handle(DB, "lessonUncomplete", body).enrollment
            IN  after.progress.overallProgress = 100 =>
                    after.completedAt = enrollment.completedAt

(***************************************************************************)
(* Completion records whose lecture was deleted, under SpecCert.           *)
(***************************************************************************)
\* The lectures the course had when it was authored: a completion record that
\* addresses one of them and no lecture now lost its lecture to a deletion.
AuthoredPositions == LecturePositions([course EXCEPT !.sections = SmallSections])

\* The positions the completion records of an enrollment and of a Progress
\* document address.
RecordedByEnrollment(completedLessons) ==
    {<<completedLessons[i].sectionIndex, completedLessons[i].lessonIndex>> :
        i \in DOMAIN completedLessons}
RecordedByProgress(completedLessons) ==
    {<<completedLessons[i].sectionIndex, completedLessons[i].lectureIndex>> :
        i \in DOMAIN completedLessons}

\* C19: with completion records that may have lost their lecture, recomputing on
\* the completion of an existing lecture gives the percentage of the existing
\* lectures that have a record (by duration for the enrollment, by count for the
\* Progress document), and the document can be saved.
C19_OrphanRecords ==
    /\ \A body \in Bodies :
          (/\ Recomputes(body)
           /\ <<Target(body).sectionIndex, Target(body).lessonIndex>>
                  \in LecturePositions(course)
           /\ RecordedByEnrollment(enrollment.progress.completedLessons) \subseteq AuthoredPositions
           /\ DurationOf(course, LecturePositions(course)) > 0) =>
              LET doc == Recalculated(course,
                             MarkCompleted(enrollment, Target(body).sectionIndex,
                                           Target(body).lessonIndex, body.timeSpent),
                             now)
              IN  /\ doc.progress.overallProgress =
                        NearestPercent(
                            DurationOf(course,
                                CompletedPositions(course, doc.progress.completedLessons)),
                            DurationOf(course, LecturePositions(course)))
                  /\ EnrollmentValid(doc)
    /\ (/\ progress.exists
        /\ RecordedByProgress(progress.completedLessons) \subseteq AuthoredPositions) =>
          \A p \in Targets \cap LecturePositions(course) :
              LET doc == CompleteLessonDoc(course, progress, p[1], p[2], 0, now)
              IN  /\ doc.completionPercentage =
                        NearestPercent(
                            Cardinality(RecordedByProgress(doc.completedLessons)
                                            \cap LecturePositions(course)),
                            CountLectures(course.sections))
                  /\ ProgressValid(doc)

ConfigInputs ==
    [organizationName : {"org1", "org2"}, signedBy : {"signer1", "signer2"},
     template : {"modern", "classic"}]

\* The course's certificate settings are replaced; the thresholds stay.
ConfigureCertificate(db, config) ==
    [db EXCEPT !.course.certificate.organizationName = config.organizationName,
               !.course.certificate.signedBy = config.signedBy,
               !.course.certificate.template = config.template]

\* Certificate.findOne({ certificateId })
FindCertificate(db, certificateId) ==
    {i \in DOMAIN db.certificates : db.certificates[i].certificateId = certificateId}

NotFound == [valid |-> FALSE, message |-> "Certificate not found"]

\* verifyCertificate; the student's name and the course's title, which it reads
\* from the User and Course documents, are not part of the model.
VerifyCertificateLive(db, certificateId) ==
    LET found == FindCertificate(db, certificateId)
        cert == db.certificates[CHOOSE i \in found : TRUE]
    IN  IF found = {} THEN NotFound
        ELSE [valid |-> TRUE,
              certificate |->
                  [id |-> cert.certificateId, issuedAt |-> cert.issuedAt,
                   completedAt |-> cert.completedAt, grade |-> cert.grade,
                   organizationName |-> db.course.certificate.organizationName,
                   signedBy |-> db.course.certificate.signedBy]]
VerifyCertificate(db, certificateId) ==
    LET found == FindCertificate(db, certificateId)
        cert == db.certificates[CHOOSE i \in found : TRUE]
    IN  IF found = {} THEN NotFound
        ELSE [valid |-> TRUE,
              certificate |->
                  [id |-> cert.certificateId, issuedAt |-> cert.issuedAt,
                   completedAt |-> cert.completedAt, grade |-> cert.grade,
                   organizationName |-> cert.certificateData.organizationName,
                   signedBy |-> cert.certificateData.signedBy]]

\* generateCertificateHTML: the values the page interpolates.
GenerateCertificateHTML(cert) ==
    [completedAt |-> cert.completedAt, grade |-> cert.grade,
     completionPercentage |-> cert.metadata.completionPercentage,
     quizAverageScore |-> cert.metadata.quizAverageScore,
     signedBy |-> cert.certificateData.signedBy,
     certificateId |-> cert.certificateId,
     organizationName |-> cert.certificateData.organizationName]

InitSnap ==
    /\ course = NewCourse(SmallSections, TRUE)
    /\ Fresh

DoConfigureCertificate ==
    \E config \in ConfigInputs : Store(ConfigureCertificate(DB, config))

NextSnap ==
    \/ DoEnroll
    \/ Tick
    \/ CertLessonComplete
    \/ DoCreateProgress
    \/ DoCompleteLesson
    \/ DoGenerateCertificate
    \/ DoConfigureCertificate

SpecSnap == InitSnap /\ [][NextSnap]_vars

\* C22: in every step, each stored certificate keeps its display data, and
\* verifyCertificate and the rendering return for it what they returned before;
\* the steps include every change of the course's certificate configuration.
C22_Snapshot ==
    [][\A i \in DOMAIN certificates :
          /\ i \in DOMAIN certificates'
          /\ certificates'[i].certificateData = certificates[i].certificateData
          /\ VerifyCertificate(DB', certificates[i].certificateId)
                = VerifyCertificate(DB, certificates[i].certificateId)
          /\ GenerateCertificateHTML(certificates'[i])
                = GenerateCertificateHTML(certificates[i])]_vars

\* C22 witness: a certificate issued under organization "org1" and signer
\* "signer1" is verified with these after the course was set to "org2", "signer2".
C22_Witness ==
    \E i \in DOMAIN certificates :
        /\ certificates[i].certificateData.organizationName = "org1"
        /\ course.certificate.organizationName = "org2"
        /\ course.certificate.signedBy = "signer2"
        /\ VerifyCertificate(DB, certificates[i].certificateId)
              .certificate.organizationName = "org1"
        /\ VerifyCertificate(DB, certificates[i].certificateId)
              .certificate.signedBy = "signer1"

(***************************************************************************)
(* SpecMark: generateCertificate called while a lesson-complete request of *)
(* the same learner may be between two of its awaits, the clock running.   *)
(***************************************************************************)
BeginOneLessonComplete ==
    \E body \in LectureBodies : BeginRequest(1, "lessonComplete", body)

NextMark ==
    \/ DoEnroll
    \/ Tick
    \/ DoCreateProgress
    \/ DoCompleteLesson
    \/ BeginOneLessonComplete
    \/ StepRequest
    \/ Respond
    \/ DoGenerateCertificate

SpecMark == InitConc /\ [][NextMark]_vars

EditAddSection ==
    /\ course.edits <= MaxEdits
    /\ Store([DB EXCEPT !.course = AddSection(course)])

EditAddLecture ==
    /\ course.edits <= MaxEdits
    /\ \E s \in SectionIndices(course), type \in {"video", "quiz"} :
           Store([DB EXCEPT !.course = AddLecture(course, s, type, 1)])

EditDeleteLecture ==
    /\ course.edits <= MaxEdits
    /\ \E p \in LecturePositions(course) :
           Store([DB EXCEPT !.course = DeleteLecture(course, p[1], p[2])])

NextEdit ==
    \/ EditAddSection
    \/ EditAddLecture
    \/ EditDeleteLecture

SpecEdit == Init /\ [][NextEdit]_vars

\* The order values of a list of sections or lectures are 1 .. N, each once.
Dense(list) ==
    /\ {list[i].order : i \in DOMAIN list} = 1 .. Len(list)
    /\ \A i, j \in DOMAIN list : list[i].order = list[j].order => i = j

\* C24: the order values of the sections of the course and of the lectures of
\* each section are dense.
C24_DenseOrder ==
    /\ Dense(course.sections)
    /\ \A s \in DOMAIN course.sections : Dense(course.sections[s].lectures)

(***************************************************************************)
(* The completion records as a set, under SpecConc.                        *)
(***************************************************************************)
\* C25: the stored completedLessons holds at most one record for each pair
\* (sectionIndex, lessonIndex), also while and after two lesson-complete requests
\* for the same lecture run at the same time.
C25_NoDuplicateRecord ==
    \A i, j \in DOMAIN enrollment.progress.completedLessons :
        (/\ enrollment.progress.completedLessons[i].sectionIndex
               = enrollment.progress.completedLessons[j].sectionIndex
         /\ enrollment.progress.completedLessons[i].lessonIndex
               = enrollment.progress.completedLessons[j].lessonIndex) => i = j

(***************************************************************************)
(* SpecDays: completion, unenrollment and re-enrollment over several days, *)
(* and the issuance of certificates.                                       *)
(***************************************************************************)
\* A day goes by; at most once from each moment of the first day.
DayPasses ==
    /\ now < DayTicks
    /\ now' = now + DayTicks
    /\ UNCHANGED <<course, enrollment, progress, certificates, attempts, idHookFirst, req>>

NextDays ==
    \/ DoEnroll
    \/ DoUnenroll
    \/ Tick
    \/ DayPasses
    \/ CertLessonComplete
    \/ DoCreateProgress
    \/ DoCompleteLesson
    \/ DoGenerateCertificate
    \/ DoGenerateForCourse

SpecDays == InitCert /\ [][NextDays]_vars

\* The whole days from enrolledAt to completedAt, rounded up, as of this state.
DaysToComplete(completedAt) == CeilDays(completedAt - enrollment.enrolledAt)

\* C26: the days-to-complete of an eligible result, and of a certificate in the
\* step that stores it, is the number of days from enrolledAt to completedAt
\* rounded up, and is not negative.
C26_DaysToComplete ==
    [][/\ CheckEligibility(DB).eligible =>
             /\ CheckEligibility(DB).completionTime
                   = DaysToComplete(CheckEligibility(DB).completedAt)
             /\ CheckEligibility(DB).completionTime >= 0
       /\ Len(certificates') > Len(certificates) =>
             LET cert == certificates'[Len(certificates')]
             IN  /\ cert.metadata.completionTime = DaysToComplete(cert.completedAt)
                 /\ cert.metadata.completionTime >= 0]_vars

(***************************************************************************)
(* One certificate per learner and course, under SpecCert.                 *)
(***************************************************************************)
\* C27: with one request at a time, at most one certificate of the learner and
\* the course is stored, and an issuance request made when one is stored (by the
\* service, by 'generate/:courseId', by the admin 'generate', or by the
\* lesson-complete that reaches 100), whatever certificateId it would give, stores
\* no other.
C27_AtMostOne ==
    /\ Len(certificates) <= 1
    /\ Len(certificates) = 1 =>
          \A random \in RandomSuffixes :
              /\ Handle(DB, "generateCertificate", [NoBody EXCEPT !.random = random])
                    .certificates = certificates
              /\ GenerateForCourse(DB, random).certificates = certificates
              /\ \A grade \in GradeInputs :
                    GenerateManual(DB, grade, random).certificates = certificates
              /\ \A body \in LectureBodies :
                    Handle(DB, "lessonComplete", [body EXCEPT !.random = random])
                        .certificates = certificates

\* C27 witness: a certificate is stored and everything else an issuance asks for
\* holds: the certificate is enabled, the enrollment is active and completed, the
\* Progress document is at 100.
C27_Witness ==
    /\ Len(certificates) = 1
    /\ course.certificate.enabled
    /\ ActiveEnrollment(DB)
    /\ CompletedEnrollment(DB)
    /\ enrollment.progress.overallProgress = 100
    /\ progress.exists
    /\ progress.completionPercentage = 100

(***************************************************************************)
(* The stored percentage against the stored completion records, under      *)
(* Spec.                                                                   *)
(***************************************************************************)
\* The completion percentage of a list of completion records in a course: by
\* duration, or by count when no lecture has a duration, over the lectures that
\* exist.
CompletionPercentage(c, completedLessons) ==
    LET all == LecturePositions(c)
        done == CompletedPositions(c, completedLessons)
    IN  IF DurationOf(c, all) > 0
        THEN NearestPercent(DurationOf(c, done), DurationOf(c, all))
        ELSE IF all # {} THEN NearestPercent(Cardinality(done), Cardinality(all))
        ELSE 0

\* The request run to its response on the stored documents.
Outcome(op, body) == Run(DB, Start(op, body))

\* C28: after a complete, uncomplete or reset request answered with success, the
\* stored overallProgress is the completion percentage of the stored
\* completedLessons, and after a complete that leaves it at 100 completedAt is set.
C28_DerivedState ==
    \A op \in {"lessonComplete", "lessonUncomplete", "reset"}, body \in Bodies :
        LET r == Outcome(op, body)
            after == r.db.enrollment
        IN  r.loc.status = 200 =>
                /\ after.progress.overallProgress
                      = CompletionPercentage(course, after.progress.completedLessons)
                /\ (op = "lessonComplete" /\ after.progress.overallProgress = 100)
                      => after.completedAt # Undefined

(***************************************************************************)
(* The enrollment counter of the course, under SpecCert.                   *)
(***************************************************************************)
\* The learner's Enrollment records of the course that are active: the unique
\* index on (user, course) allows one record, which the model holds in place.
ActiveEnrollments == IF ActiveEnrollment(DB) THEN 1 ELSE 0

\* C29: the course's enrolledStudents counter is the number of active Enrollment
\* records of the course, and so is never negative.
C29_EnrolledStudents ==
    /\ course.enrolledStudents = ActiveEnrollments
    /\ course.enrolledStudents >= 0

(***************************************************************************)
(* The order of the eligibility conditions, under SpecCert.                *)
(***************************************************************************)
\* The conditions in the order they are tested, each with the reason given when
\* it fails.
EligibilityConditions ==
    << [holds |-> course.certificate.enabled,
        reason |-> "Certificate not enabled for this course"],
       [holds |-> enrollment.exists /\ enrollment.isActive,
        reason |-> "User not enrolled in this course"],
       [holds |-> certificates = <<>>,
        reason |-> "Certificate already issued"],
       [holds |-> progress.exists,
        reason |-> "No progress found for this course"],
       [holds |-> progress.completionPercentage
                     >= course.certificate.completionRequirement,
        reason |-> "Course completion required"],
       [holds |-> ~(/\ HasQuizzes(course)
                    /\ progress.quizScores # <<>>
                    /\ QuizTotal(progress)
                          < course.certificate.passingScore * Len(progress.quizScores)),
        reason |-> "Minimum quiz score required"] >>

Failing == {i \in DOMAIN EligibilityConditions : ~EligibilityConditions[i].holds}

\* C30: checkEligibility answers eligible exactly when no condition fails, and
\* else gives the reason of the first condition that fails, with the existing
\* certificate exactly when that reason is 'Certificate already issued'.
C30_FirstFailing ==
    LET e == CheckEligibility(DB)
    IN  /\ e.eligible <=> Failing = {}
        /\ Failing # {} =>
              LET first == CHOOSE i \in Failing : \A j \in Failing : i <= j
              IN  /\ e.reason = EligibilityConditions[first].reason
                  /\ e.certificate <=> first = 3

\* C30 witness: a learner who holds a certificate, has unenrolled and whose
\* Progress is below the threshold is told 'User not enrolled in this course'.
C30_Witness ==
    /\ Failing = {2, 3, 5}
    /\ CheckEligibility(DB).reason = "User not enrolled in this course"

(***************************************************************************)
(* SpecQuiz: quiz submissions to a course with a graded quiz of two        *)
(* questions, an ungraded quiz of three, a quiz without questions and a    *)
(* video.                                                                  *)
(***************************************************************************)
QuizBankSections ==
    << Section(1, 1,
         << Lecture(11, 1, "quiz", 60, 0,
                [isGraded |-> TRUE, passingScore |-> 50,
                 questions |-> << SingleQuestion(<<0>>), MultipleQuestion(<<0, 1>>) >>]),
            Lecture(12, 2, "quiz", 60, 0,
                [isGraded |-> FALSE, passingScore |-> 0,
                 questions |-> << SingleQuestion(<<0>>), SingleQuestion(<<0, 1>>),
                                  MultipleQuestion(<<>>) >>]),
            Lecture(13, 3, "quiz", 60, 0,
                [isGraded |-> FALSE, passingScore |-> 0, questions |-> <<>>]),
            Lecture(14, 4, "video", 60, 0, DefaultQuiz) >>) >>

\* The selectedAnswers of one answer: nothing, one index, two in either order, a
\* repeated index.
Selections == {<<>>, <<0>>, <<1>>, <<0, 1>>, <<1, 0>>, <<0, 1, 1>>}

\* The answers of a submission: none, one, two, and some of three and of four.
AnswerLists ==
    {<<>>} \cup {<<a>> : a \in Selections} \cup (Selections \X Selections)
        \cup {<< <<0>>, <<0>>, <<>> >>, << <<0>>, <<1, 0>>, <<0>> >>,
              << <<1>>, <<>>, <<0>> >>, << <<0>>, <<0>>, <<>>, <<0>> >>}

QuizLectureIds == {11, 12, 13, 14}

InitQuiz ==
    /\ course = NewCourse(QuizBankSections, TRUE)
    /\ Fresh

QuizSubmitAttempt == SubmitAttemptOf(QuizLectureIds, AnswerLists)

NextQuiz ==
    \/ DoEnroll
    \/ QuizSubmitAttempt

SpecQuiz == InitQuiz /\ [][NextQuiz]_vars

\* The quiz of the lecture an attempt was submitted to.
QuizOf(lectureId) ==
    LectureAt(course, CHOOSE p \in QuizLectures(course, lectureId) : TRUE).quiz

Indices(list) == {list[i] : i \in DOMAIN list}

\* C14: every persisted attempt has totalQuestions = the number of questions of its
\* quiz, score = round(100 * number of correct answers / totalQuestions), a score
\* in 0 .. 100, and passed = (score >= passingScore) for a graded quiz, null for an
\* ungraded one.
C14_AttemptScore ==
    \A i \in DOMAIN attempts :
        LET a == attempts[i]
            quiz == QuizOf(a.lecture)
            correctCount == Cardinality({j \in DOMAIN a.answers : a.answers[j].isCorrect})
        IN  /\ a.totalQuestions = Len(quiz.questions)
            /\ a.totalQuestions > 0
            /\ a.score = NearestPercent(correctCount, a.totalQuestions)
            /\ InRange(a.score)
            /\ a.passed = IF quiz.isGraded
                          THEN (IF a.score >= quiz.passingScore THEN "true" ELSE "false")
                          ELSE "null"

\* C14 witness: an attempt with two of three answers right is stored with score 67
\* and passed = null, the quiz being ungraded.
C14_Witness ==
    \E i \in DOMAIN attempts :
        /\ attempts[i].lecture = 12
        /\ attempts[i].correctAnswers = 2
        /\ attempts[i].score = 67
        /\ attempts[i].passed = "null"

\* C15: in every persisted attempt each answer's isCorrect follows the rule: a
\* 'single' question is correct iff exactly one index is selected and it is a
\* correct one, a 'multiple' question iff the set of selected indices equals the
\* set of correct indices.
C15_Correctness ==
    \A i \in DOMAIN attempts :
        \A j \in DOMAIN attempts[i].answers :
            LET answer == attempts[i].answers[j]
                question == QuizOf(attempts[i].lecture).questions[j]
                selected == answer.selectedAnswers
            IN  answer.isCorrect <=>
                    IF question.type = "single"
                    THEN Len(selected) = 1
                         /\ selected[1] \in Indices(question.correctAnswers)
                    ELSE Indices(selected) = Indices(question.correctAnswers)

\* C16: a submission to the quiz without questions is recorded, with score 0.
C16_NoQuestions ==
    Len(attempts) < MaxAttempts =>
        LET after == SubmitAttempt(DB, 13, <<>>).attempts
        IN  /\ Len(after) = Len(attempts) + 1
            /\ after[Len(after)].score = 0

\* C17: no attempt is persisted whose number of answers differs from the number of
\* questions of its quiz.
C17_AnswerCount ==
    \A i \in DOMAIN attempts :
        Len(attempts[i].answers) = Len(QuizOf(attempts[i].lecture).questions)

====
